---- MODULE Spec2Model ----
(***************************************************************************)
(* Model of inflammation/models.py: the statistics over a 2D table of      *)
(* IEEE-754 binary64 values (numpy float64) and the Observation / Patient  *)
(* / Doctor entities.                                                      *)
(*                                                                         *)
(* A float64 is the record [k, s, hi, lo, e]:                              *)
(*   k = "fin": the value (-1)^s * (hi * 2^27 + lo) * 2^e, where the       *)
(*              53-bit significand hi * 2^27 + lo is 0 (then e = 0) or     *)
(*              lies in [2^52, 2^53);                                      *)
(*   k = "inf": the infinity of sign s;   k = "nan": not a number.         *)
(* The significand is split in two limbs so that every intermediate fits   *)
(* a 32-bit integer.  Exponent overflow and subnormals do not arise for    *)
(* the values drawn here and are not represented.                          *)
(***************************************************************************)
EXTENDS Integers, Sequences, FiniteSets

\* Significand width of numpy's float64.
MantBits == 53

LoBase == 2^27
HiBase == 2^26
HiTop == 2^25

NaN == [k |-> "nan", s |-> 0, hi |-> 0, lo |-> 0, e |-> 0]
Inf(sign) == [k |-> "inf", s |-> sign, hi |-> 0, lo |-> 0, e |-> 0]
Zero(sign) == [k |-> "fin", s |-> sign, hi |-> 0, lo |-> 0, e |-> 0]
Fin(sign, m, ex) == [k |-> "fin", s |-> sign, hi |-> m.hi, lo |-> m.lo, e |-> ex]

IsNaN(x) == x.k = "nan"
IsZero(x) == x.k = "fin" /\ x.hi = 0 /\ x.lo = 0
Xor(a, b) == IF a = b THEN 0 ELSE 1
Min2(a, b) == IF a < b THEN a ELSE b

(* ---- two-limb naturals [hi, lo] = hi * 2^27 + lo ---- *)
MGe(x, y) == x.hi > y.hi \/ (x.hi = y.hi /\ x.lo >= y.lo)
MSub(x, y) ==
    IF x.lo >= y.lo THEN [hi |-> x.hi - y.hi, lo |-> x.lo - y.lo]
    ELSE [hi |-> x.hi - y.hi - 1, lo |-> x.lo + LoBase - y.lo]
MAdd(x, y) ==
    [hi |-> x.hi + y.hi + ((x.lo + y.lo) \div LoBase), lo |-> (x.lo + y.lo) % LoBase]
MDbl(x) == MAdd(x, x)
MInc(x) == MAdd(x, [hi |-> 0, lo |-> 1])

(* ---- a significand with the guard bit g and the sticky bit st of the    *)
(*      bits shifted out below it ---- *)
Shr1(x) ==
    [hi |-> x.hi \div 2, lo |-> (x.hi % 2) * HiBase + (x.lo \div 2),
     g |-> x.lo % 2, st |-> IF x.g = 1 \/ x.st = 1 THEN 1 ELSE 0]

\* x shifted right n times.  The shifts (and the division steps below) are
\* evaluated in two halves, the first finished before the second starts, which
\* keeps the evaluation stack shallow.
RECURSIVE ShrN(_, _)
RECURSIVE ShrRest(_, _)
ShrN(x, n) ==
    IF n = 0 THEN x
    ELSE IF n = 1 THEN Shr1(x)
    ELSE ShrRest(ShrN(x, n \div 2), n - (n \div 2))
ShrRest(h, n) == IF h.hi >= 0 THEN ShrN(h, n) ELSE h

\* Round to nearest, ties to even: x = [hi, lo, g, st] with significand in
\* [2^52, 2^53), scaled by 2^ex.
RoundEven(sign, x, ex) ==
    LET up == x.g = 1 /\ (x.st = 1 \/ x.lo % 2 = 1)
        m == IF up THEN MInc(x) ELSE [hi |-> x.hi, lo |-> x.lo]
    IN  IF m.hi >= HiBase THEN Fin(sign, [hi |-> HiTop, lo |-> 0], ex + 1)
        ELSE Fin(sign, m, ex)

\* a + b for operands of one sign (the tables hold no mixed signs where a sum
\* is taken): the smaller exponent's significand is shifted right onto the
\* larger's, the exact sum rounded once.
FAdd(a, b) ==
    IF IsNaN(a) \/ IsNaN(b) THEN NaN
    ELSE IF a.k = "inf" THEN a
    ELSE IF b.k = "inf" THEN b
    ELSE IF IsZero(a) THEN b
    ELSE IF IsZero(b) THEN a
    ELSE LET big == IF a.e >= b.e THEN a ELSE b
             small == IF a.e >= b.e THEN b ELSE a
             sh == ShrN([hi |-> small.hi, lo |-> small.lo, g |-> 0, st |-> 0],
                        Min2(big.e - small.e, MantBits + 2))
             sum == MAdd(big, sh)
             ext == [hi |-> sum.hi, lo |-> sum.lo, g |-> sh.g, st |-> sh.st]
         IN  IF sum.hi >= HiBase THEN RoundEven(a.s, Shr1(ext), big.e + 1)
             ELSE RoundEven(a.s, ext, big.e)

\* Long division of r by d (r < 2 * d): one more quotient bit onto q.
DivStep(s, d) ==
    IF MGe(s.r, d) THEN [r |-> MDbl(MSub(s.r, d)), q |-> MInc(MDbl(s.q))]
    ELSE [r |-> MDbl(s.r), q |-> MDbl(s.q)]

\* n >= 1 more quotient bits.
RECURSIVE DivBits(_, _, _)
RECURSIVE DivRest(_, _, _)
DivBits(s, d, n) ==
    IF n = 1 THEN DivStep(s, d)
    ELSE DivRest(DivBits(s, d, n \div 2), d, n - (n \div 2))
DivRest(h, d, n) == IF h.q.hi >= 0 THEN DivBits(h, d, n) ELSE h

\* a / b, correctly rounded, with IEEE's special cases (x/0 = inf, 0/0 = nan).
FDiv(a, b) ==
    LET sign == Xor(a.s, b.s) IN
    IF IsNaN(a) \/ IsNaN(b) THEN NaN
    ELSE IF a.k = "inf" THEN (IF b.k = "inf" THEN NaN ELSE Inf(sign))
    ELSE IF b.k = "inf" THEN Zero(sign)
    ELSE IF IsZero(b) THEN (IF IsZero(a) THEN NaN ELSE Inf(sign))
    ELSE IF IsZero(a) THEN Zero(sign)
    ELSE LET ma == [hi |-> a.hi, lo |-> a.lo]
             mb == [hi |-> b.hi, lo |-> b.lo]
             ge == MGe(ma, mb)
             r0 == IF ge THEN ma ELSE MDbl(ma)
             dq == DivBits([r |-> r0, q |-> [hi |-> 0, lo |-> 0]], mb, MantBits)
             gb == IF MGe(dq.r, mb) THEN 1 ELSE 0
             rest == IF gb = 1 THEN MSub(dq.r, mb) ELSE dq.r
             ext == [hi |-> dq.q.hi, lo |-> dq.q.lo, g |-> gb,
                     st |-> IF rest.hi = 0 /\ rest.lo = 0 THEN 0 ELSE 1]
         IN  RoundEven(sign, ext, a.e - b.e - (IF ge THEN MantBits - 1 ELSE MantBits))

\* x < y and x <= y of IEEE: false when either is nan; -0.0 equals 0.0.
MagLt(a, b) ==
    IF IsZero(b) THEN FALSE
    ELSE IF IsZero(a) THEN TRUE
    ELSE a.e < b.e \/ (a.e = b.e /\ ~MGe(a, b))
FinLt(a, b) ==
    IF a.s = 0 /\ b.s = 0 THEN MagLt(a, b)
    ELSE IF a.s = 1 /\ b.s = 1 THEN MagLt(b, a)
    ELSE a.s = 1 /\ ~(IsZero(a) /\ IsZero(b))
FLt(a, b) ==
    IF IsNaN(a) \/ IsNaN(b) THEN FALSE
    ELSE IF a.k = "inf" THEN a.s = 1 /\ ~(b.k = "inf" /\ b.s = 1)
    ELSE IF b.k = "inf" THEN b.s = 0
    ELSE FinLt(a, b)
FEq(a, b) ==
    ~IsNaN(a) /\ ~IsNaN(b) /\ ~FLt(a, b) /\ ~FLt(b, a)
FLe(a, b) == FLt(a, b) \/ FEq(a, b)
FGt(a, b) == FLt(b, a)

\* The float64 of a small natural (exact).
RECURSIVE Normalise(_, _)
Normalise(m, ex) ==
    IF m.hi >= HiTop THEN Fin(0, m, ex) ELSE Normalise(MDbl(m), ex - 1)
FromNat(n) == IF n = 0 THEN Zero(0) ELSE Normalise([hi |-> n, lo |-> 0], -27)
Neg(x) == [x EXCEPT !.s = 1 - x.s]

(***************************************************************************)
(* numpy arrays and the outcome of a call                                  *)
(***************************************************************************)
\* An array is [type, shape, flat]: the Python type of the object, its shape
\* tuple and its elements in row-major order.  A 2D table of shape <<P, D>>
\* holds patient p's value of day d (both from 0) at flat[p * D + d + 1].
NRows(a) == a.shape[1]
NCols(a) == a.shape[2]
Cell(a, p, d) == a.flat[p * NCols(a) + d + 1]

NotCalled == [status |-> "none"]
Returned(v) == [status |-> "ok", value |-> v]
Raised(exc, msg) == [status |-> "raise", exc |-> exc, msg |-> msg]

\* np.maximum / np.minimum propagate nan; np.fmax ignores it.
Maximum(a, b) == IF IsNaN(a) THEN a ELSE IF IsNaN(b) THEN b ELSE IF FLt(a, b) THEN b ELSE a
Minimum(a, b) == IF IsNaN(a) THEN a ELSE IF IsNaN(b) THEN b ELSE IF FLt(b, a) THEN b ELSE a
Fmax(a, b) == IF IsNaN(a) THEN b ELSE IF IsNaN(b) THEN a ELSE IF FLt(a, b) THEN b ELSE a

\* ufunc.reduce down axis 0: column d folded over the rows 0 .. p, in row order
\* (the order numpy adds in for fewer than 8 rows).
RECURSIVE ReduceAdd(_, _, _)
ReduceAdd(a, d, p) ==
    IF p = 0 THEN Cell(a, 0, d) ELSE FAdd(ReduceAdd(a, d, p - 1), Cell(a, p, d))
RECURSIVE ReduceMax(_, _, _)
ReduceMax(a, d, p) ==
    IF p = 0 THEN Cell(a, 0, d) ELSE Maximum(ReduceMax(a, d, p - 1), Cell(a, p, d))
RECURSIVE ReduceMin(_, _, _)
ReduceMin(a, d, p) ==
    IF p = 0 THEN Cell(a, 0, d) ELSE Minimum(ReduceMin(a, d, p - 1), Cell(a, p, d))

\* Mutant: the column sums, not divided.
daily_mean_Sum(a) == [d \in 1..NCols(a) |-> ReduceAdd(a, d - 1, NRows(a) - 1)]

\* np.mean(data, axis=0): the column sums divided by the number of rows.
daily_mean(a) ==
    [d \in 1..NCols(a) |-> FDiv(ReduceAdd(a, d - 1, NRows(a) - 1), FromNat(NRows(a)))]
\* np.max(data, axis=0)
daily_max(a) == [d \in 1..NCols(a) |-> ReduceMax(a, d - 1, NRows(a) - 1)]
\* np.min(data, axis=0)
daily_min(a) == [d \in 1..NCols(a) |-> ReduceMin(a, d - 1, NRows(a) - 1)]

\* np.nanmax(data, axis=1): row p folded with fmax over the days 0 .. d.
RECURSIVE RowFmax(_, _, _)
RowFmax(a, p, d) ==
    IF d = 0 THEN Cell(a, p, 0) ELSE Fmax(RowFmax(a, p, d - 1), Cell(a, p, d))
nanmax(a) == [p \in 1..NRows(a) |-> RowFmax(a, p - 1, NCols(a) - 1)]

\* Mutant: the nan entries are left in place.
ReplaceNaN_Skip(x) == x

\* normalised[np.isnan(normalised)] = 0
ReplaceNaN(x) == IF IsNaN(x) THEN Zero(0) ELSE x
\* normalised[normalised < 0] = 0
ClampNegative(x) == IF FLt(x, Zero(0)) THEN Zero(0) ELSE x

\* data / max_data[:, np.newaxis], then the two replacements.
Normalised(a) ==
    LET max_data == nanmax(a)
    IN  [type |-> "ndarray", shape |-> a.shape,
         flat |-> [i \in 1..Len(a.flat) |->
                     ClampNegative(ReplaceNaN(
                         FDiv(a.flat[i], max_data[((i - 1) \div NCols(a)) + 1])))]]

AnyNegative(a) == \E i \in 1..Len(a.flat) : FLt(a.flat[i], Zero(0))

\* Mutant: the values are checked before the dimensions.
patient_normalise_ValuesFirst(a) ==
    IF a.type # "ndarray" THEN Raised("TypeError", "data input should be ndarray")
    ELSE IF AnyNegative(a)
         THEN Raised("ValueError", "Inflammation values should not be negative")
    ELSE IF Len(a.shape) # 2
         THEN Raised("ValueError", "inflammation array should be 2-dimensional")
    ELSE Returned(Normalised(a))

patient_normalise(a) ==
    IF a.type # "ndarray" THEN Raised("TypeError", "data input should be ndarray")
    ELSE IF Len(a.shape) # 2
         THEN Raised("ValueError", "inflammation array should be 2-dimensional")
    ELSE IF AnyNegative(a)
         THEN Raised("ValueError", "Inflammation values should not be negative")
    ELSE Returned(Normalised(a))

\* reduce(count_above_threshold, map(lambda x: x > threshold, row), 0) over the
\* first n entries of the row.
count_above_threshold(a, b) == IF b THEN a + 1 ELSE a
\* Mutant: x >= threshold.
RECURSIVE ReduceCount_AtLeast(_, _, _)
ReduceCount_AtLeast(row, t, n) ==
    IF n = 0 THEN 0
    ELSE count_above_threshold(ReduceCount_AtLeast(row, t, n - 1), FLe(t, row[n]))

RECURSIVE ReduceCount(_, _, _)
ReduceCount(row, t, n) ==
    IF n = 0 THEN 0
    ELSE count_above_threshold(ReduceCount(row, t, n - 1), FGt(row[n], t))

\* data[patient_num]: a row index from 0, or from -1 backwards from the end.
daily_above_threshold(num, a, t) ==
    IF num >= NRows(a) \/ num < -NRows(a)
    THEN Raised("IndexError", "index out of bounds")
    ELSE LET p == IF num < 0 THEN num + NRows(a) ELSE num
             row == [d \in 1..NCols(a) |-> Cell(a, p, d - 1)]
         IN  Returned(ReduceCount(row, t, NCols(a)))


(***************************************************************************)
(* State                                                                   *)
(***************************************************************************)
VARIABLES
    data,              \* the table passed to a statistics function
    patient_num,       \* daily_above_threshold's row argument
    threshold,         \* daily_above_threshold's threshold argument
    result,            \* per statistics function: the outcome of its call
    observation_objs,  \* the Observation objects, in creation order: [day, value]
    list_objs,         \* the Python list objects: sequences of Observation ids
    patient_objs,      \* the Patient objects: [name, observations (a list id)]
    doctor,            \* the Doctor object: [name, patients (Patient ids)]
    last               \* the last entity call: [op, self, args, out]

stat_vars == <<data, patient_num, threshold, result>>
entity_vars == <<observation_objs, list_objs, patient_objs, doctor, last>>
vars == <<data, patient_num, threshold, result,
          observation_objs, list_objs, patient_objs, doctor, last>>

(***************************************************************************)
(* Bounds and input sets                                                   *)
(***************************************************************************)
MaxCells == 4
MaxPatients == 2
MaxNamedPatients == 3
MaxObservations == 3
MaxDay == 1

Tenth == FDiv(FromNat(1), FromNat(10))
AggPalette == {Zero(0), Tenth, FromNat(1), FromNat(2)}
NormPalette == {Neg(FromNat(1)), Zero(0), Tenth, FromNat(1), NaN, Inf(0)}
ThresholdPalette == {Zero(0), Tenth, FromNat(1), NaN}
Thresholds == {Zero(0), Tenth, FromNat(1)}
Names == {"Alice", "Bob", "Carol"}
Values == {5, 7}

\* A Python optional argument: <<>> is None, <<x>> is x.
None == <<>>
Some(x) == <<x>>

Shapes2D(n) == {<<p, n \div p>> : p \in {q \in 1..n : n % q = 0}}
\* The shapes of rank 1, 2 and 3 (with one leading plane) that hold n elements.
Shapes(n, ranks) ==
    {sh \in {<<n>>} \cup Shapes2D(n) \cup {<<1, s2[1], s2[2]>> : s2 \in Shapes2D(n)} :
        Len(sh) \in ranks}
Arrays(types, ranks, palette) ==
    UNION {UNION {[type : types, shape : {sh}, flat : [1..n -> palette]] :
                   sh \in Shapes(n, ranks)} : n \in 1..MaxCells}
Tables(palette) == Arrays({"ndarray"}, {2}, palette)

Functions ==
    {"daily_mean", "daily_max", "daily_min", "patient_normalise", "daily_above_threshold"}

NoStats ==
    /\ data = [type |-> "ndarray", shape |-> <<1, 1>>, flat |-> <<Zero(0)>>]
    /\ patient_num = 0
    /\ threshold = Zero(0)
    /\ result = [f \in Functions |-> NotCalled]
NoEntities ==
    /\ observation_objs = <<>>
    /\ list_objs = <<>>
    /\ patient_objs = <<>>
    /\ doctor = [name |-> "Dr", patients |-> <<>>]
    /\ last = [op |-> "none"]

(***************************************************************************)
(* The statistics functions, each called once on the drawn input           *)
(***************************************************************************)
Call(f, outcome) ==
    /\ result[f].status = "none"
    /\ result' = [result EXCEPT ![f] = outcome]
    /\ UNCHANGED <<data, patient_num, threshold>>
    /\ UNCHANGED entity_vars

Call_daily_mean == Call("daily_mean", Returned(daily_mean(data)))
Call_daily_max == Call("daily_max", Returned(daily_max(data)))
Call_daily_min == Call("daily_min", Returned(daily_min(data)))
Call_patient_normalise == Call("patient_normalise", patient_normalise(data))
Call_daily_above_threshold ==
    Call("daily_above_threshold", daily_above_threshold(patient_num, data, threshold))

InitAgg ==
    /\ data \in Tables(AggPalette)
    /\ patient_num = 0
    /\ threshold = Zero(0)
    /\ result = [f \in Functions |-> NotCalled]
    /\ NoEntities
NextAgg == Call_daily_mean \/ Call_daily_max \/ Call_daily_min
SpecAgg == InitAgg /\ [][NextAgg]_vars

InitNorm ==
    /\ data \in Arrays({"ndarray", "list"}, {1, 2, 3}, NormPalette)
    /\ patient_num = 0
    /\ threshold = Zero(0)
    /\ result = [f \in Functions |-> NotCalled]
    /\ NoEntities
NextNorm == Call_patient_normalise
SpecNorm == InitNorm /\ [][NextNorm]_vars

InitThreshold ==
    /\ data \in Tables(ThresholdPalette)
    /\ patient_num \in -(NRows(data) + 1)..NRows(data)
    /\ threshold \in Thresholds
    /\ result = [f \in Functions |-> NotCalled]
    /\ NoEntities
NextThreshold == Call_daily_above_threshold
SpecThreshold == InitThreshold /\ [][NextThreshold]_vars

(***************************************************************************)
(* Observation, Person, Patient, Doctor                                    *)
(***************************************************************************)
\* Mutant: list[0].
LastIndex_First(l) ==
    IF Len(l) = 0 THEN Raised("IndexError", "list index out of range")
    ELSE Returned(l[1])

\* list[-1]: the last element, or IndexError on an empty list.
LastIndex(l) ==
    IF Len(l) = 0 THEN Raised("IndexError", "list index out of range")
    ELSE Returned(l[Len(l)])

ObservationsOf(p) == list_objs[patient_objs[p].observations]

\* Patient.__init__(name, observations): a new list unless one is passed, which
\* is then the patient's list itself.
Patient_init(name, observations) ==
    /\ IF observations = None
       THEN /\ list_objs' = Append(list_objs, <<>>)
            /\ patient_objs' = Append(patient_objs,
                   [name |-> name, observations |-> Len(list_objs) + 1])
       ELSE /\ list_objs' = list_objs
            /\ patient_objs' = Append(patient_objs,
                   [name |-> name, observations |-> observations[1]])
    /\ last' = [op |-> "Patient", self |-> Len(patient_objs) + 1,
                args |-> <<name, observations>>, out |-> Returned(None)]
    /\ UNCHANGED <<observation_objs, doctor>>
    /\ UNCHANGED stat_vars

\* Mutants: a day-less observation gets day 0, or the last observation's day.
DayFor_Zero(self, day) == IF day = None THEN 0 ELSE day[1]
DayFor_SameDay(self, day) ==
    IF day = None
    THEN (IF Len(list_objs[patient_objs[self].observations]) = 0 THEN 0
          ELSE observation_objs[list_objs[patient_objs[self].observations][
                   Len(list_objs[patient_objs[self].observations])]].day)
    ELSE day[1]

\* The day add_observation gives an observation of patient self.
DayFor(self, day) ==
    IF day = None
    THEN LET l == LastIndex(ObservationsOf(self))
         IN  IF l.status = "raise" THEN 0 ELSE observation_objs[l.value].day + 1
    ELSE day[1]

\* Mutant: the new observation is inserted at the front of the list.
add_observation_Prepend(self, value, day) ==
    LET new_observation == Len(observation_objs) + 1
        lst == patient_objs[self].observations
    IN  /\ observation_objs' =
               Append(observation_objs, [day |-> DayFor(self, day), value |-> value])
        /\ list_objs' = [list_objs EXCEPT ![lst] = <<new_observation>> \o @]
        /\ last' = [op |-> "add_observation", self |-> self,
                    args |-> <<value, day>>, out |-> Returned(new_observation)]
        /\ UNCHANGED <<patient_objs, doctor>>
        /\ UNCHANGED stat_vars

\* Patient.add_observation(value, day)
add_observation(self, value, day) ==
    LET new_observation == Len(observation_objs) + 1
        lst == patient_objs[self].observations
    IN  /\ observation_objs' =
               Append(observation_objs, [day |-> DayFor(self, day), value |-> value])
        /\ list_objs' = [list_objs EXCEPT ![lst] = Append(@, new_observation)]
        /\ last' = [op |-> "add_observation", self |-> self,
                    args |-> <<value, day>>, out |-> Returned(new_observation)]
        /\ UNCHANGED <<patient_objs, doctor>>
        /\ UNCHANGED stat_vars

\* Patient.last_observation
last_observation(self) ==
    /\ last' = [op |-> "last_observation", self |-> self, args |-> <<>>,
                out |-> LastIndex(ObservationsOf(self))]
    /\ UNCHANGED <<observation_objs, list_objs, patient_objs, doctor>>
    /\ UNCHANGED stat_vars

\* Mutant: the patients are compared by identity, not by name.
NameTaken_SameObject(new_patient) ==
    \E i \in 1..Len(doctor.patients) : doctor.patients[i] = new_patient

\* Doctor.add_patient(new_patient)
NameTaken(new_patient) ==
    \E i \in 1..Len(doctor.patients) :
        patient_objs[doctor.patients[i]].name = patient_objs[new_patient].name
add_patient(new_patient) ==
    /\ doctor' = IF NameTaken(new_patient) THEN doctor
                 ELSE [doctor EXCEPT !.patients = Append(@, new_patient)]
    /\ last' = [op |-> "add_patient", self |-> 0, args |-> <<new_patient>>,
                out |-> Returned(None)]
    /\ UNCHANGED <<observation_objs, list_objs, patient_objs>>
    /\ UNCHANGED stat_vars

\* The patient operations never read a name: one is drawn for them, and every
\* name for the doctor's patients.
NewPatient ==
    /\ Len(patient_objs) < MaxPatients
    /\ \E observations \in {None} \cup {Some(l) : l \in 1..Len(list_objs)} :
           Patient_init("Alice", observations)
NewNamedPatient ==
    /\ Len(patient_objs) < MaxNamedPatients
    /\ \E name \in Names : Patient_init(name, None)
AddObservation ==
    /\ Len(observation_objs) < MaxObservations
    /\ \E self \in 1..Len(patient_objs) : \E value \in Values :
        \E day \in {None} \cup {Some(d) : d \in 0..MaxDay} :
            add_observation(self, value, day)
LastObservation == \E self \in 1..Len(patient_objs) : last_observation(self)
AddPatient == \E p \in 1..Len(patient_objs) : add_patient(p)

Init == NoStats /\ NoEntities
Next == NewPatient \/ AddObservation \/ LastObservation
Spec == Init /\ [][Next]_vars

NextDoctor == NewNamedPatient \/ AddPatient
SpecDoctor == Init /\ [][NextDoctor]_vars

(***************************************************************************)
(* Properties of the statistics functions                                  *)
(***************************************************************************)
Above == result["daily_above_threshold"]
ValidRow == patient_num \in -NRows(data)..(NRows(data) - 1)
\* The entries of row T[p], read off the buffer.
RowStart == (IF patient_num < 0 THEN patient_num + NRows(data) ELSE patient_num) * NCols(data)
RowEntry(d) == data.flat[RowStart + d]
Days == 1..NCols(data)

\* C1: for a valid row index p, daily_above_threshold(p, T, t) is the number of
\* entries of row T[p] strictly greater than t; it is 0 when no entry exceeds t
\* (t >= max) and the row's length when every entry exceeds t (t < min).
C1_CountsStrictlyGreater ==
    (Above.status # "none" /\ ValidRow) =>
        /\ Above.status = "ok"
        /\ Above.value = Cardinality({d \in Days : FLt(threshold, RowEntry(d))})
        /\ Above.value <= Cardinality({d \in Days : ~FEq(RowEntry(d), threshold)})
        /\ (\A d \in Days : FLe(RowEntry(d), threshold)) => Above.value = 0
        /\ (\A d \in Days : FLt(threshold, RowEntry(d))) => Above.value = NCols(data)

\* A row with an entry equal to the threshold, one above it and one below it.
C1_Witness ==
    /\ Above.status = "ok"
    /\ ValidRow
    /\ \E d \in Days : FEq(RowEntry(d), threshold)
    /\ \E d \in Days : FLt(threshold, RowEntry(d))
    /\ \E d \in Days : FLt(RowEntry(d), threshold)
    /\ Above.value = 1

Norm == result["patient_normalise"]
One == FromNat(1)
ValidTable ==
    /\ data.type = "ndarray"
    /\ Len(data.shape) = 2
    /\ \A i \in 1..Len(data.flat) : ~(data.flat[i].k # "nan" /\ data.flat[i].s = 1)
InRow(p) == {i \in 1..Len(data.flat) : (i - 1) \div NCols(data) = p - 1}
\* j holds the maximum of row p, nan entries ignored.
IsRowMax(p, j) ==
    /\ j \in InRow(p)
    /\ ~IsNaN(data.flat[j])
    /\ \A i \in InRow(p) : IsNaN(data.flat[i]) \/ FLe(data.flat[i], data.flat[j])

\* C2: for a valid non-negative table, patient_normalise returns a table of the
\* same shape whose every cell is a number in [0, 1], the input divided by its
\* row's maximum where that maximum is positive and finite, and an all-zero row
\* maps to all zeros.
C2_NormalisedInUnitInterval ==
    (Norm.status # "none" /\ ValidTable) =>
        /\ Norm.status = "ok"
        /\ Norm.value.type = "ndarray"
        /\ Norm.value.shape = data.shape
        /\ Len(Norm.value.flat) = Len(data.flat)
        /\ \A i \in 1..Len(data.flat) :
               /\ Norm.value.flat[i].k = "fin"
               /\ FLe(Zero(0), Norm.value.flat[i])
               /\ FLe(Norm.value.flat[i], One)
        /\ \A p \in 1..NRows(data) :
               /\ (\A i \in InRow(p) : IsZero(data.flat[i])) =>
                      \A i \in InRow(p) : IsZero(Norm.value.flat[i])
               /\ \A j \in InRow(p) :
                      (IsRowMax(p, j) /\ data.flat[j].k = "fin" /\ ~IsZero(data.flat[j])) =>
                          /\ Norm.value.flat[j] = One
                          /\ \A i \in InRow(p) :
                                 ~IsNaN(data.flat[i]) =>
                                     Norm.value.flat[i] = FDiv(data.flat[i], data.flat[j])

\* A normalised table with an all-zero row and a row holding a nan beside its
\* maximum.
C2_Witness ==
    /\ Norm.status = "ok"
    /\ NCols(data) > 1
    /\ \E p \in 1..NRows(data) : \A i \in InRow(p) : IsZero(data.flat[i])
    /\ \E p \in 1..NRows(data) :
           /\ \E i \in InRow(p) : IsNaN(data.flat[i])
           /\ \E i \in InRow(p) : Norm.value.flat[i] = One

\* C3: patient_normalise rejects a malformed input with an error and no table:
\* TypeError for a non-array, else the dimension ValueError for an array that
\* is not 2-dimensional, else the negative-value ValueError for a table with a
\* negative entry; the first failing check decides.
C3_RejectsMalformedInOrder ==
    Norm.status # "none" =>
        LET negative == \E i \in 1..Len(data.flat) :
                            data.flat[i].k # "nan" /\ data.flat[i].s = 1
        IN  /\ data.type # "ndarray" =>
                   Norm = Raised("TypeError", "data input should be ndarray")
            /\ (data.type = "ndarray" /\ Len(data.shape) # 2) =>
                   Norm = Raised("ValueError", "inflammation array should be 2-dimensional")
            /\ (data.type = "ndarray" /\ Len(data.shape) = 2 /\ negative) =>
                   Norm = Raised("ValueError", "Inflammation values should not be negative")
            /\ ~ValidTable => Norm.status = "raise"

\* An array that is not 2-dimensional and holds a negative value: the dimension
\* error is the one raised.
C3_Witness ==
    /\ Norm.status = "raise"
    /\ data.type = "ndarray"
    /\ Len(data.shape) = 3
    /\ \E i \in 1..Len(data.flat) : data.flat[i] = Neg(One)
    /\ Norm.msg = "inflammation array should be 2-dimensional"

Mean == result["daily_mean"]
Max == result["daily_max"]
Min == result["daily_min"]
AllCalled == Mean.status = "ok" /\ Max.status = "ok" /\ Min.status = "ok"
Column(d) == {data.flat[(p - 1) * NCols(data) + d] : p \in 1..NRows(data)}
HasLengthD(series) == DOMAIN series = Days

\* x is a whole number below 2^27, and which.
IsWhole(x) ==
    /\ x.k = "fin"
    /\ IsZero(x) \/ (x.e < 0 /\ x.e >= -(MantBits - 1)
                     /\ LET sh == ShrN([hi |-> x.hi, lo |-> x.lo, g |-> 0, st |-> 0], -x.e)
                        IN  sh.g = 0 /\ sh.st = 0 /\ sh.hi = 0)
Whole(x) ==
    IF IsZero(x) THEN 0
    ELSE ShrN([hi |-> x.hi, lo |-> x.lo, g |-> 0, st |-> 0], -x.e).lo
RECURSIVE SumWhole(_, _, _)
SumWhole(a, d, p) ==
    IF p = 0 THEN 0 ELSE SumWhole(a, d, p - 1) + Whole(a.flat[(p - 1) * NCols(a) + d])

\* C8 as claimed: the three series have length D and
\* daily_min[d] <= daily_mean[d] <= daily_max[d] for every day d.
C8_MeanBetweenMinAndMax ==
    AllCalled =>
        /\ HasLengthD(Mean.value) /\ HasLengthD(Max.value) /\ HasLengthD(Min.value)
        /\ \A d \in Days :
               FLe(Min.value[d], Mean.value[d]) /\ FLe(Mean.value[d], Max.value[d])

\* C8 as amended: the three series have length D; daily_max[d] and daily_min[d]
\* are the greatest and the least entry of column d; and on a column of whole
\* numbers (whose sum is exact) daily_mean[d] is the column's sum divided by P,
\* rounded once, and lies between daily_min[d] and daily_max[d].
C8_MeanBetweenMinAndMaxWhenExact ==
    AllCalled =>
        /\ HasLengthD(Mean.value) /\ HasLengthD(Max.value) /\ HasLengthD(Min.value)
        /\ \A d \in Days :
               /\ Max.value[d] \in Column(d)
               /\ Min.value[d] \in Column(d)
               /\ \A x \in Column(d) : FLe(Min.value[d], x) /\ FLe(x, Max.value[d])
               /\ (\A x \in Column(d) : IsWhole(x)) =>
                      /\ Mean.value[d] =
                             FDiv(FromNat(SumWhole(data, d, NRows(data))), FromNat(NRows(data)))
                      /\ FLe(Min.value[d], Mean.value[d])
                      /\ FLe(Mean.value[d], Max.value[d])

\* A column of whole numbers whose mean lies strictly between its least and its
\* greatest entry.
C8_Witness ==
    /\ AllCalled
    /\ \E d \in Days :
           /\ \A x \in Column(d) : IsWhole(x)
           /\ FLt(Min.value[d], Mean.value[d])
           /\ FLt(Mean.value[d], Max.value[d])

(***************************************************************************)
(* Properties of the entities                                              *)
(***************************************************************************)
DayOf(objs, o) == objs[o].day
OrderedByDay(objs, l) ==
    \A i \in 1..(Len(l) - 1) : DayOf(objs, l[i]) <= DayOf(objs, l[i + 1])
Patients == 1..Len(patient_objs)
IsPrefix(a, b) == Len(a) <= Len(b) /\ SubSeq(b, 1, Len(a)) = a

\* C4 as claimed: in every reachable state every patient's observations are
\* ordered by day.
C4_AlwaysOrderedByDay ==
    \A p \in Patients : OrderedByDay(observation_objs, ObservationsOf(p))

\* C4 as amended: an add_observation call whose day is omitted, or is not less
\* than the day of the patient's last observation, keeps observations that are
\* ordered by day ordered by day.
C4_OrderedUnlessEarlierDay ==
    [][last'.op = "add_observation" =>
         LET lst == ObservationsOf(last'.self)
             day == last'.args[2]
         IN  (/\ OrderedByDay(observation_objs, lst)
              /\ \/ day = None
                 \/ Len(lst) = 0
                 \/ (day # None /\ Len(lst) > 0
                     /\ day[1] >= DayOf(observation_objs, lst[Len(lst)])))
             => OrderedByDay(observation_objs',
                             list_objs'[patient_objs'[last'.self].observations])]_vars

\* An observation added with an explicit, later day after an earlier one.
C4_Witness ==
    /\ last.op = "add_observation"
    /\ last.args[2] # None
    /\ LET lst == ObservationsOf(last.self)
       IN  /\ Len(lst) >= 2
           /\ OrderedByDay(observation_objs, lst)
           /\ DayOf(observation_objs, lst[Len(lst) - 1]) < DayOf(observation_objs, lst[Len(lst)])

\* C5: add_observation(value) without a day creates an Observation with that
\* value and day 0 on an empty list, else the last observation's day + 1,
\* appends it last and returns it; so days 0 .. n-1 are followed by day n.
C5_AutoDayAppendsAndReturns ==
    [][(last'.op = "add_observation" /\ last'.args[2] = None) =>
         LET lst == ObservationsOf(last'.self)
             after == list_objs'[patient_objs'[last'.self].observations]
             new == Len(observation_objs) + 1
         IN  /\ last'.out = Returned(new)
             /\ observation_objs' =
                    Append(observation_objs,
                           [day |-> IF Len(lst) = 0 THEN 0
                                    ELSE DayOf(observation_objs, lst[Len(lst)]) + 1,
                            value |-> last'.args[1]])
             /\ after = Append(lst, new)
             /\ (\A i \in 1..Len(lst) : DayOf(observation_objs, lst[i]) = i - 1) =>
                    \A i \in 1..Len(after) : DayOf(observation_objs', after[i]) = i - 1]_vars

\* Two day-less calls on a new patient: days 0, 1 and values 5, 7.
C5_Witness ==
    /\ last.op = "add_observation"
    /\ last.args = <<7, None>>
    /\ LET lst == ObservationsOf(last.self)
       IN  /\ Len(lst) = 2
           /\ observation_objs[lst[1]] = [day |-> 0, value |-> 5]
           /\ observation_objs[lst[2]] = [day |-> 1, value |-> 7]
           /\ last.out = Returned(lst[2])

DoctorNames == [i \in 1..Len(doctor.patients) |-> patient_objs[doctor.patients[i]].name]

\* C6: no two of the doctor's patients have the same name; add_patient of a
\* patient whose name is in the list leaves the list unchanged without an
\* error, and otherwise appends the patient at the end.
C6_UniqueByName ==
    /\ [](\A i, j \in 1..Len(doctor.patients) : DoctorNames[i] = DoctorNames[j] => i = j)
    /\ [][last'.op = "add_patient" =>
            LET new == last'.args[1]
            IN  /\ last'.out = Returned(None)
                /\ IF \E i \in 1..Len(doctor.patients) :
                          DoctorNames[i] = patient_objs[new].name
                   THEN doctor' = doctor
                   ELSE doctor' = [doctor EXCEPT !.patients = Append(@, new)]]_vars

\* A second patient object named like one of the doctor's two patients was
\* passed to add_patient, and is not in the list.
C6_Witness ==
    /\ last.op = "add_patient"
    /\ Len(doctor.patients) = 2
    /\ \A i \in 1..2 : doctor.patients[i] # last.args[1]
    /\ DoctorNames[1] = patient_objs[last.args[1]].name

\* C7: add_observation lengthens the patient's list by exactly one; every list
\* is a prefix of what it becomes, and no Observation ever changes.
C7_AppendOnly ==
    [][/\ Len(list_objs') >= Len(list_objs)
       /\ \A l \in 1..Len(list_objs) : IsPrefix(list_objs[l], list_objs'[l])
       /\ IsPrefix(observation_objs, observation_objs')
       /\ last'.op = "add_observation" =>
              Len(list_objs'[patient_objs'[last'.self].observations])
                  = Len(ObservationsOf(last'.self)) + 1]_vars

\* An observation was appended to a list that held two.
C7_Witness ==
    /\ last.op = "add_observation"
    /\ Len(ObservationsOf(last.self)) = 3

\* C9: last_observation returns the observation appended last (the newest of
\* the list) when there is one, raises IndexError when there is none, and
\* changes nothing.
C9_LastObservation ==
    /\ [](last.op = "last_observation" =>
            LET lst == ObservationsOf(last.self)
            IN  IF Len(lst) = 0
                THEN last.out.status = "raise" /\ last.out.exc = "IndexError"
                ELSE /\ last.out = Returned(lst[Len(lst)])
                     /\ \A i \in 1..Len(lst) : lst[i] <= last.out.value)
    /\ [][last'.op = "last_observation" =>
            UNCHANGED <<observation_objs, list_objs, patient_objs, doctor>>]_vars

\* last_observation raised IndexError on a patient without observations while
\* another patient has some.
C9_Witness ==
    /\ last.op = "last_observation"
    /\ last.out.status = "raise"
    /\ Len(ObservationsOf(last.self)) = 0
    /\ \E p \in Patients : Len(ObservationsOf(p)) > 0

\* C10 as claimed: add_observation on one patient leaves every other patient's
\* observations unchanged.
C10_OtherPatientsUnchanged ==
    [][last'.op = "add_observation" =>
         \A q \in Patients :
             q # last'.self =>
                 list_objs'[patient_objs'[q].observations] = ObservationsOf(q)]_vars

====
